---- MODULE Spec2Model ----
(***************************************************************************)
(* Model of scripts/import-posts.mjs, the headless Markdown -> Sanity      *)
(* importer.                                                               *)
(*                                                                         *)
(* The module holds four state machines over one set of variables:         *)
(*   SpecSplice / SpecSpliceAny : extract -> convert -> splice of a body   *)
(*   SpecValidate               : validateFrontmatter on one frontmatter   *)
(*   Spec / SpecTwoRuns         : the driver main() over a set of files    *)
(*   SpecRetry / SpecRetryLive  : one call of withRetry                    *)
(* and SpecSplitBlock, the splice of one converter block.                  *)
(*                                                                         *)
(* Strings that the code cuts or searches (span text, alt text, titles)    *)
(* are sequences of atoms; an atom is a one-character string, except that  *)
(* a placeholder token is the two atoms "[[[SANITY_IMAGE_n" and "]]]".     *)
(***************************************************************************)
EXTENDS Integers, Sequences, FiniteSets, TLC

VARIABLES
  \* ---- body pipeline (markdownToPortableTextWithInlineImages) ----
  stage,      \* position in the pipeline: "md", "extracted", "converted", "spliced"
  md,         \* the Markdown body: a sequence of text and image-reference items
  rewritten,  \* rewrittenMarkdown of extractInlineImages
  images,     \* images of extractInlineImages
  pt,         \* the converter's blocks after ensureKeys and filterUnsupportedBlocks
  body,       \* the final body
  keysUsed,   \* number of generateKey() calls made for this body
  \* ---- validateFrontmatter on one frontmatter ----
  vfm,        \* the frontmatter handed to validateFrontmatter
  vresult     \* [called, threw, errors]: the outcome of the call

VARIABLES
  \* ---- the driver: configuration and environment ----
  WRITE, CHECK, DRAFT,   \* the --write, --check and --draft flags
  ONLY_SLUG,                  \* the --only slug, Undefined when not given
  files,                 \* the discovered Markdown files: [path, fm, content]
  network,               \* the outcomes a network operation can have in this run
  \* ---- the driver: the process ----
  pc,                    \* where main() / importFile() stands
  fileIdx,               \* i of main(): index of the file being processed (1-based)
  ok, fail, skipped,     \* the counters of main()
  slugToFile,            \* slug -> path of the first file that used it
  assetCache,            \* absPath -> asset id
  uploadPromises,        \* absPath -> attempt number of the upload in flight
  pending,               \* the uploads the current importFile is suspended on
  cur,                   \* locals of the current importFile
  exitCode,              \* -1 while the process runs
  \* ---- the driver: the backend and what an observer sees ----
  dataset,               \* the documents of the backend, by _id
  calls,                 \* the network operations invoked so far
  warnings,              \* the slug collision warnings logged
  results,               \* the outcome of every file processed so far
  clock,                 \* the wall clock read by new Date()
  run,                   \* number of the current run of the importer
  firstRun               \* the dataset as the first run left it

VARIABLES
  \* ---- one call of withRetry(fn) ----
  retryPc,       \* "idle", "call" (fn is about to be invoked), "wait", "returned", "threw"
  retryAttempt,  \* attempt of withRetry
  retryLog,      \* the outcome of every invocation of fn so far
  retryWaits,    \* the delays slept so far, in ms
  retryEnd       \* what withRetry returned or threw

spliceVars == <<stage, md, rewritten, images, pt, body, keysUsed>>
validateVars == <<vfm, vresult>>
configVars == <<WRITE, CHECK, DRAFT, ONLY_SLUG, files, network>>
tallyVars == <<ok, fail, skipped, fileIdx, results>>
uploadVars == <<assetCache, uploadPromises, calls>>
driverVars == <<configVars, tallyVars, uploadVars, pc, slugToFile, pending, cur, exitCode,
                dataset, warnings, clock, run, firstRun>>

retryVars == <<retryPc, retryAttempt, retryLog, retryWaits, retryEnd>>

vars == <<spliceVars, validateVars, driverVars, retryVars>>

(***************************************************************************)
(* Bounds                                                                  *)
(***************************************************************************)
MaxItems == 3     \* items (characters or image references) in a Markdown body
MaxRefs == 2      \* image references in a Markdown body
NumFiles == 2     \* files discovered in a run, at most
CallCap == 2      \* the network log counts invocations of an operation up to this
MaxSpans == 3     \* spans of the one block that is handed to the splitter

(***************************************************************************)
(* Text helpers (String.prototype.trim / indexOf / slice on atom sequences)*)
(***************************************************************************)
BlankLine == "\n\n"

IsWhitespace(c) == c \in {" ", BlankLine}

RECURSIVE trimStart(_)
trimStart(s) == IF s # <<>> /\ IsWhitespace(Head(s)) THEN trimStart(Tail(s)) ELSE s

RECURSIVE trimEnd(_)
trimEnd(s) ==
  IF s # <<>> /\ IsWhitespace(s[Len(s)]) THEN trimEnd(SubSeq(s, 1, Len(s) - 1)) ELSE s

trim(s) == trimEnd(trimStart(s))

\* 1-based position of the first occurrence of t in text, 0 when there is none
\* (JavaScript's indexOf returns the 0-based position, -1 when there is none).
indexOf(text, t) ==
  LET occ == {i \in 1..(Len(text) - Len(t) + 1) : SubSeq(text, i, i + Len(t) - 1) = t}
  IN IF occ = {} THEN 0 ELSE CHOOSE i \in occ : \A j \in occ : i <= j

includes(text, t) == indexOf(text, t) # 0

RECURSIVE joinTexts(_)
joinTexts(texts) == IF texts = <<>> THEN <<>> ELSE Head(texts) \o joinTexts(Tail(texts))

(***************************************************************************)
(* Keys.  generateKey() returns 6 random bytes; in the body pipeline the   *)
(* n-th call is modelled as the fresh value <<"g", n>>.  The converter's   *)
(* own keys are <<"c", block, span>>; a block or span without a key has NoKey.       *)
(***************************************************************************)
NoKey == <<"none">>
generateKey(n) == <<"g", n + 1>>
ConverterKey(i, j) == <<"c", i, j>>

(***************************************************************************)
(* Markdown bodies                                                         *)
(***************************************************************************)
TextItem(c) == [kind |-> "text", ch |-> c]
ImageRef(a, s, c) == [kind |-> "img", alt |-> a, src |-> s, caption |-> c]

\* ![ cat](a "A cat")   and   ![](b)
RefKinds == { ImageRef(<<" ", "c", "a", "t">>, <<"a">>, <<"A", " ", "c", "a", "t">>),
              ImageRef(<<>>, <<"b">>, <<>>) }

Items == {TextItem("a"), TextItem(" ")} \cup RefKinds

NumRefs(m) == Cardinality({i \in 1..Len(m) : m[i].kind = "img"})

Markdowns ==
  {m \in UNION {[1..n -> Items] : n \in 0..MaxItems} : NumRefs(m) <= MaxRefs}

(***************************************************************************)
(* extractInlineImages                                                     *)
(***************************************************************************)
Token(n) == <<"[[[SANITY_IMAGE_" \o ToString(n), "]]]">>

RECURSIVE extractFrom(_, _, _)
extractFrom(m, text, imgs) ==
  IF m = <<>> THEN [rewrittenMarkdown |-> text, images |-> imgs]
  ELSE IF Head(m).kind = "img"
       THEN LET token == Token(Len(imgs))
            IN extractFrom(Tail(m),
                           text \o <<BlankLine>> \o token \o <<BlankLine>>,
                           Append(imgs, [token |-> token,
                                         alt |-> trim(Head(m).alt),
                                         src |-> Head(m).src,
                                         caption |-> trim(Head(m).caption)]))
       ELSE extractFrom(Tail(m), Append(text, Head(m).ch), imgs)

extractInlineImages(m) == extractFrom(m, <<>>, <<>>)

(***************************************************************************)
(* markdownToPortableText (@portabletext/markdown), an external converter. *)
(* It is a black box: the model lets it lay the rewritten text out in any  *)
(* way that keeps the text order.  A layout says for every atom whether it *)
(* is cut from what precedes it: a blank line that is cut ends the block   *)
(* (and is dropped), a blank line that is joined stays in the span as      *)
(* whitespace; any other atom that is cut starts a new span whose marks    *)
(* differ from the previous span's.  Every span carries one more property, *)
(* origin, that tells the converter's spans apart: the splitter copies a   *)
(* span's properties with { ...child }, so a fragment keeps the origin of  *)
(* the span it was cut from.                                               *)
(***************************************************************************)
LinkDef == [_key |-> "lk1", _type |-> "link", href |-> "https://example.org"]
MarkedMarks == <<"strong", "lk1">>

\* How the converter decorates its blocks: heading styles on odd blocks,
\* keys present or not, odd blocks of a type other than "block".
Decors == { [heading |-> FALSE, keyed |-> TRUE, code |-> FALSE],
            [heading |-> TRUE, keyed |-> FALSE, code |-> FALSE] }
DecorsAny == Decors \cup { [heading |-> FALSE, keyed |-> TRUE, code |-> TRUE] }

Layouts(rw) == [1..Len(rw) -> {"join", "cut"}]

\* A layout that never separates the two atoms of a token.
KeepsTokensWhole(rw, lay) == \A i \in 1..Len(rw) : rw[i] = "]]]" => lay[i] = "join"

closeSpan(acc) ==
  IF acc.text = <<>> THEN acc
  ELSE [acc EXCEPT !.spans = Append(@, [text |-> acc.text, marked |-> acc.marked]),
                   !.text = <<>>]

closeBlock(acc) ==
  LET a == closeSpan(acc)
  IN [a EXCEPT !.blocks = IF a.spans = <<>> THEN @ ELSE Append(@, a.spans),
               !.spans = <<>>,
               !.marked = FALSE]

RECURSIVE layOut(_, _, _, _)
layOut(rw, lay, i, acc) ==
  IF i > Len(rw) THEN closeBlock(acc).blocks
  ELSE IF rw[i] = BlankLine /\ lay[i] = "cut" THEN layOut(rw, lay, i + 1, closeBlock(acc))
  ELSE IF lay[i] = "cut"
       THEN layOut(rw, lay, i + 1,
                   [closeSpan(acc) EXCEPT !.marked = ~acc.marked, !.text = <<rw[i]>>])
  ELSE layOut(rw, lay, i + 1, [acc EXCEPT !.text = Append(@, rw[i])])

converterSpan(sp, i, j, decor) ==
  [_type |-> "span",
   _key |-> IF decor.keyed THEN ConverterKey(i, j) ELSE NoKey,
   text |-> sp.text,
   marks |-> IF sp.marked THEN MarkedMarks ELSE <<>>,
   origin |-> <<i, j>>]

converterBlock(spans, i, decor) ==
  [_type |-> IF decor.code /\ i % 2 = 1 THEN "code" ELSE "block",
   _key |-> IF decor.keyed THEN ConverterKey(i, 0) ELSE NoKey,
   style |-> IF decor.heading /\ i % 2 = 1 THEN "h2" ELSE "normal",
   markDefs |-> IF \E j \in 1..Len(spans) : spans[j].marked THEN <<LinkDef>> ELSE <<>>,
   children |-> [j \in 1..Len(spans) |-> converterSpan(spans[j], i, j, decor)]]

markdownToPortableText(rw, lay, decor) ==
  LET laid == layOut(rw, lay, 1, [blocks |-> <<>>, spans |-> <<>>, text |-> <<>>,
                                 marked |-> FALSE])
  IN [i \in 1..Len(laid) |-> converterBlock(laid[i], i, decor)]

(***************************************************************************)
(* Token detection                                                         *)
(***************************************************************************)
SpanTexts(block) == [j \in 1..Len(block.children) |->
                       IF block.children[j]._type = "span"
                       THEN block.children[j].text ELSE <<>>]

isTokenOnlyBlock(block, token) ==
  IF block._type # "block" THEN FALSE
  ELSE trim(joinTexts(SpanTexts(block))) = token

blockContainsAnyToken(block, tokens) ==
  IF block._type # "block" THEN FALSE
  ELSE \E t \in 1..Len(tokens) : includes(joinTexts(SpanTexts(block)), tokens[t])

\* hasMeaningfulChildren that holds of every block that has a child.
hasMeaningfulChildrenAny(block) == Len(block.children) > 0

hasMeaningfulChildren(block) ==
  \E j \in 1..Len(block.children) :
     LET c == block.children[j]
     IN IF c._type # "span" THEN TRUE ELSE Len(trim(c.text)) > 0

(***************************************************************************)
(* splitBlockByTokensPreserveMarks.  The loop state st holds the blocks    *)
(* emitted so far (out), the paragraph under construction (current) and    *)
(* the number of keys generated so far (n).                                *)
(***************************************************************************)
\* newParagraph that keeps the key of the block being split.
newParagraphSourceKey(block, n) ==
  [_key |-> block._key,
   _type |-> "block",
   style |-> IF block.style = "" THEN "normal" ELSE block.style,
   markDefs |-> block.markDefs,
   children |-> <<>>]

newParagraph(block, n) ==
  [_key |-> generateKey(n),
   _type |-> "block",
   style |-> IF block.style = "" THEN "normal" ELSE block.style,
   markDefs |-> block.markDefs,
   children |-> <<>>]

flushCurrent(st, block) ==
  [out |-> IF hasMeaningfulChildren(st.current) THEN Append(st.out, st.current) ELSE st.out,
   current |-> newParagraph(block, st.n),
   n |-> st.n + 1]

\* pushFragment with the fragment's marks dropped.
pushFragmentUnmarked(st, child, text) ==
  [st EXCEPT !.current.children = Append(@, [child EXCEPT !._key = generateKey(st.n),
                                                           !.text = text,
                                                           !.marks = <<>>]),
             !.n = @ + 1]

\* current.children.push({ ...child, _key: generateKey(), text })
pushFragment(st, child, text) ==
  [st EXCEPT !.current.children = Append(@, [child EXCEPT !._key = generateKey(st.n),
                                                           !.text = text]),
             !.n = @ + 1]

\* nearestToken with the comparison reversed: the token that occurs last.
farthestToken(text, tokens) ==
  LET found == {t \in 1..Len(tokens) : includes(text, tokens[t])}
  IN IF found = {} THEN [idx |-> 0, token |-> <<>>]
     ELSE LET best == CHOOSE t \in found :
                        \A u \in found : indexOf(text, tokens[t]) >= indexOf(text, tokens[u])
          IN [idx |-> indexOf(text, tokens[best]), token |-> tokens[best]]

\* The token of tokens that occurs first in text: [idx, token], idx = 0 when none.
nearestToken(text, tokens) ==
  LET found == {t \in 1..Len(tokens) : includes(text, tokens[t])}
  IN IF found = {} THEN [idx |-> 0, token |-> <<>>]
     ELSE LET best == CHOOSE t \in found :
                        \A u \in found :
                           \/ indexOf(text, tokens[t]) < indexOf(text, tokens[u])
                           \/ indexOf(text, tokens[t]) = indexOf(text, tokens[u]) /\ t <= u
          IN [idx |-> indexOf(text, tokens[best]), token |-> tokens[best]]

RECURSIVE splitSpan(_, _, _, _, _, _)
splitSpan(st, block, child, text, tokens, tokenToImageBlock) ==
  LET hit == nearestToken(text, tokens)
  IN IF hit.idx = 0
     THEN IF Len(text) > 0 THEN pushFragment(st, child, text) ELSE st
     ELSE LET before == SubSeq(text, 1, hit.idx - 1)
              after == SubSeq(text, hit.idx + Len(hit.token), Len(text))
              s1 == IF Len(before) > 0 THEN pushFragment(st, child, before) ELSE st
              s2 == flushCurrent(s1, block)
              s3 == [s2 EXCEPT !.out = Append(@, [tokenToImageBlock[hit.token]
                                                    EXCEPT !._key = generateKey(s2.n)]),
                               !.n = @ + 1]
          IN splitSpan(s3, block, child, after, tokens, tokenToImageBlock)

RECURSIVE splitChildren(_, _, _, _, _)
splitChildren(st, block, j, tokens, tokenToImageBlock) ==
  IF j > Len(block.children) THEN st
  ELSE LET child == block.children[j]
       IN IF child._type # "span"
          THEN splitChildren(
                 IF child._key # NoKey
                 THEN [st EXCEPT !.current.children = Append(@, child)]
                 ELSE [st EXCEPT !.current.children =
                                    Append(@, [child EXCEPT !._key = generateKey(st.n)]),
                                 !.n = @ + 1],
                 block, j + 1, tokens, tokenToImageBlock)
          ELSE splitChildren(splitSpan(st, block, child, child.text, tokens,
                                       tokenToImageBlock),
                             block, j + 1, tokens, tokenToImageBlock)

\* Returns [out, n]: the blocks and the number of keys generated so far.
splitBlockByTokensPreserveMarks(block, tokens, tokenToImageBlock, n) ==
  LET st0 == [out |-> <<>>, current |-> newParagraph(block, n), n |-> n + 1]
      st == flushCurrent(splitChildren(st0, block, 1, tokens, tokenToImageBlock), block)
  IN [out |-> st.out, n |-> st.n]

(***************************************************************************)
(* replaceTokensWithImageBlocksPreserveMarks                               *)
(***************************************************************************)
RECURSIVE replaceFrom(_, _, _, _, _)
replaceFrom(ptBlocks, i, tokens, tokenToImageBlock, acc) ==
  IF i > Len(ptBlocks) THEN acc
  ELSE LET block == ptBlocks[i]
           tokenOnly == {t \in 1..Len(tokens) : isTokenOnlyBlock(block, tokens[t])}
       IN IF block._type # "block"
          THEN replaceFrom(ptBlocks, i + 1, tokens, tokenToImageBlock,
                 IF block._key # NoKey
                 THEN [acc EXCEPT !.out = Append(@, block)]
                 ELSE [out |-> Append(acc.out, [block EXCEPT !._key = generateKey(acc.n)]),
                       n |-> acc.n + 1])
          ELSE IF tokenOnly # {}
          THEN LET t == CHOOSE t \in tokenOnly : \A u \in tokenOnly : t <= u
               IN replaceFrom(ptBlocks, i + 1, tokens, tokenToImageBlock,
                    [out |-> Append(acc.out, [tokenToImageBlock[tokens[t]]
                                                EXCEPT !._key = generateKey(acc.n)]),
                     n |-> acc.n + 1])
          ELSE IF blockContainsAnyToken(block, tokens)
          THEN LET r == splitBlockByTokensPreserveMarks(block, tokens, tokenToImageBlock,
                                                        acc.n)
               IN replaceFrom(ptBlocks, i + 1, tokens, tokenToImageBlock,
                              [out |-> acc.out \o r.out, n |-> r.n])
          ELSE replaceFrom(ptBlocks, i + 1, tokens, tokenToImageBlock,
                           [acc EXCEPT !.out = Append(@, block)])

replaceTokensWithImageBlocksPreserveMarks(ptBlocks, tokens, tokenToImageBlock, n) ==
  replaceFrom(ptBlocks, 1, tokens, tokenToImageBlock, [out |-> <<>>, n |-> n])

(***************************************************************************)
(* ensureKeys, filterUnsupportedBlocks                                     *)
(***************************************************************************)
HasChildren(block) == "children" \in DOMAIN block

RECURSIVE ensureChildKeys(_, _, _)
ensureChildKeys(children, j, acc) ==
  IF j > Len(children) THEN acc
  ELSE IF children[j]._key # NoKey
       THEN ensureChildKeys(children, j + 1, [acc EXCEPT !.out = Append(@, children[j])])
       ELSE ensureChildKeys(children, j + 1,
              [out |-> Append(acc.out, [children[j] EXCEPT !._key = generateKey(acc.n)]),
               n |-> acc.n + 1])

RECURSIVE ensureFrom(_, _, _)
ensureFrom(ptBlocks, i, acc) ==
  IF i > Len(ptBlocks) THEN acc
  ELSE LET block == ptBlocks[i]
           keyed == IF block._key # NoKey THEN block
                    ELSE [block EXCEPT !._key = generateKey(acc.n)]
           n1 == IF block._key # NoKey THEN acc.n ELSE acc.n + 1
       IN IF HasChildren(keyed)
          THEN LET c == ensureChildKeys(keyed.children, 1, [out |-> <<>>, n |-> n1])
               IN ensureFrom(ptBlocks, i + 1,
                             [out |-> Append(acc.out, [keyed EXCEPT !.children = c.out]),
                              n |-> c.n])
          ELSE ensureFrom(ptBlocks, i + 1, [out |-> Append(acc.out, keyed), n |-> n1])

\* Returns [out, n].
ensureKeys(ptBlocks, n) == ensureFrom(ptBlocks, 1, [out |-> <<>>, n |-> n])

UNSUPPORTED_BLOCK_TYPES == {"horizontal-rule"}

filterUnsupportedBlocks(ptBlocks) ==
  SelectSeq(ptBlocks, LAMBDA block : block._type \notin UNSUPPORTED_BLOCK_TYPES)

(***************************************************************************)
(* Frontmatter.  A field's value is a string (a sequence of atoms) or      *)
(* Undefined when the field is absent.  The code tests fields for          *)
(* truthiness: an absent field and an empty string are both falsy.         *)
(***************************************************************************)
Undefined == <<"<undefined>">>

Falsy(v) == v = Undefined \/ v = <<>>

\* Date.parse(v) is not NaN
DateParses(v) == v \in {<<"2", "0", "2", "4">>}

\* validateFrontmatter that throws at the first violation it meets.
errorsOfFirstOnly(fm) ==
  IF Falsy(fm.title) THEN <<"missing 'title'">>
  ELSE IF Falsy(fm.author) /\ Falsy(fm.authorId) THEN <<"missing 'author' or 'authorId'">>
  ELSE IF Falsy(fm.mainImage) THEN <<"missing 'mainImage'">>
  ELSE IF Falsy(fm.mainImageAlt) THEN <<"missing 'mainImageAlt'">>
  ELSE IF ~Falsy(fm.publishedAt) /\ ~DateParses(fm.publishedAt)
       THEN <<"invalid 'publishedAt' date">>
  ELSE <<>>

\* The errors array of validateFrontmatter.
errorsOf(fm) ==
  (IF Falsy(fm.title) THEN <<"missing 'title'">> ELSE <<>>)
  \o (IF Falsy(fm.author) /\ Falsy(fm.authorId)
      THEN <<"missing 'author' or 'authorId'">> ELSE <<>>)
  \o (IF Falsy(fm.mainImage) THEN <<"missing 'mainImage'">> ELSE <<>>)
  \o (IF Falsy(fm.mainImageAlt) THEN <<"missing 'mainImageAlt'">> ELSE <<>>)
  \o (IF ~Falsy(fm.publishedAt) /\ ~DateParses(fm.publishedAt)
      THEN <<"invalid 'publishedAt' date">> ELSE <<>>)

\* [threw, errors]: validateFrontmatter throws one Error whose message joins errors.
validateFrontmatter(fm) ==
  [threw |-> Len(errorsOf(fm)) > 0, errors |-> errorsOf(fm)]

(***************************************************************************)
(* markdownToPortableTextWithInlineImages as a pipeline of three steps.    *)
(* The uploads are those of the driver below; here an upload of src        *)
(* returns the asset RemoteAssetId(src).                                   *)
(***************************************************************************)
RemoteAssetId(absPath) == <<"image-">> \o absPath

imageBlock(img, assetId) ==
  [_type |-> "image",
   _key |-> NoKey,
   asset |-> [_type |-> "reference", _ref |-> assetId],
   alt |-> IF img.alt = <<>> THEN <<"I", "m", "a", "g", "e">> ELSE img.alt,
   caption |-> img.caption]

tokensOf(imgs) == [i \in 1..Len(imgs) |-> imgs[i].token]

\* assetIds[k] is the _id of the asset that the upload of imgs[k] returned.
tokenToImageBlockOf(imgs, assetIds) ==
  [t \in {imgs[k].token : k \in 1..Len(imgs)} |->
     LET k == CHOOSE k \in 1..Len(imgs) :
                 imgs[k].token = t /\ \A l \in 1..Len(imgs) : imgs[l].token = t => l <= k
     IN imageBlock(imgs[k], assetIds[k])]

otherThanSplice == <<validateVars, driverVars, retryVars>>
otherThanValidate == <<spliceVars, driverVars, retryVars>>
otherThanDriver == <<spliceVars, validateVars, retryVars>>
otherThanRetry == <<spliceVars, validateVars, driverVars>>

\* An outcome of fn(): a resolved value, or a rejection with the properties of
\* the error that withRetry looks at.  statusCode 0 and code "" stand for absent.
Resolved(v) == [ok |-> TRUE, value |-> v, statusCode |-> 0, code |-> "", hangUp |-> FALSE]
Rejected(statusCode, code, hangUp) ==
  [ok |-> FALSE, value |-> 0, statusCode |-> statusCode, code |-> code, hangUp |-> hangUp]

NoOutcome == [ok |-> FALSE, value |-> -1, statusCode |-> 0, code |-> "", hangUp |-> FALSE]

\* withRetry at rest, for the state machines that do not run it.
RetryIdle ==
  /\ retryPc = "idle" /\ retryAttempt = 0 /\ retryLog = <<>> /\ retryWaits = <<>>
  /\ retryEnd = NoOutcome

NoCur == [slug |-> Undefined, publishedAt |-> Undefined, authorRef |-> Undefined,
          attempt |-> 0, doc |-> [_id |-> Undefined]]

NoCalls == [upload |-> <<>>, fetch |-> 0, createIfNotExists |-> 0, createOrReplace |-> 0,
            joined |-> {}, cacheHits |-> {}, uploadFailed |-> {}, failed |-> FALSE,
            settled |-> <<>>, gaveUp |-> {}]

\* The driver at rest, for the state machines that do not run it.
DriverIdle ==
  /\ WRITE = FALSE /\ CHECK = FALSE /\ DRAFT = FALSE /\ ONLY_SLUG = Undefined
  /\ files = <<>> /\ network = {}
  /\ pc = "idle" /\ fileIdx = 1 /\ ok = 0 /\ fail = 0 /\ skipped = 0
  /\ slugToFile = <<>> /\ assetCache = <<>> /\ uploadPromises = <<>>
  /\ pending = {} /\ cur = NoCur /\ exitCode = -1
  /\ dataset = <<>> /\ calls = NoCalls /\ warnings = {} /\ results = <<>>
  /\ clock = 0 /\ run = 1 /\ firstRun = <<>>

\* The body pipeline and the validator at rest, for the state machines that
\* do not run them.
SpliceIdle ==
  /\ stage = "idle"
  /\ md = <<>>
  /\ rewritten = <<>>
  /\ images = <<>>
  /\ pt = <<>>
  /\ body = <<>>
  /\ keysUsed = 0

ValidateIdle ==
  /\ vfm = [title |-> Undefined, author |-> Undefined, authorId |-> Undefined,
            mainImage |-> Undefined, mainImageAlt |-> Undefined,
            publishedAt |-> Undefined]
  /\ vresult = [called |-> FALSE, threw |-> FALSE, errors |-> <<>>]

InitSplice ==
  /\ stage = "md"
  /\ md \in Markdowns
  /\ rewritten = <<>>
  /\ images = <<>>
  /\ pt = <<>>
  /\ body = <<>>
  /\ keysUsed = 0
  /\ ValidateIdle
  /\ DriverIdle
  /\ RetryIdle

Extract ==
  /\ stage = "md"
  /\ stage' = "extracted"
  /\ rewritten' = extractInlineImages(md).rewrittenMarkdown
  /\ images' = extractInlineImages(md).images
  /\ UNCHANGED <<md, pt, body, keysUsed>>
  /\ UNCHANGED otherThanSplice

convertWith(lay, decor) ==
  LET keyed == ensureKeys(markdownToPortableText(rewritten, lay, decor), keysUsed)
  IN /\ pt' = filterUnsupportedBlocks(keyed.out)
     /\ keysUsed' = keyed.n

\* The converter keeps every token inside one span of a text block.
Convert ==
  /\ stage = "extracted"
  /\ stage' = "converted"
  /\ \E lay \in Layouts(rewritten), decor \in Decors :
        /\ KeepsTokensWhole(rewritten, lay)
        /\ convertWith(lay, decor)
  /\ UNCHANGED <<md, rewritten, images, body>>
  /\ UNCHANGED otherThanSplice

\* The converter is free: it may cut a token in two spans and may return
\* blocks whose type is not "block".
ConvertAny ==
  /\ stage = "extracted"
  /\ stage' = "converted"
  /\ \E lay \in Layouts(rewritten), decor \in DecorsAny : convertWith(lay, decor)
  /\ UNCHANGED <<md, rewritten, images, body>>
  /\ UNCHANGED otherThanSplice

Splice ==
  /\ stage = "converted"
  /\ stage' = "spliced"
  /\ IF Len(images) = 0
     THEN body' = pt /\ keysUsed' = keysUsed
     ELSE LET result == replaceTokensWithImageBlocksPreserveMarks(
                          pt, tokensOf(images),
                          tokenToImageBlockOf(images,
                            [k \in 1..Len(images) |-> RemoteAssetId(images[k].src)]),
                          keysUsed)
              keyed == ensureKeys(result.out, result.n)
          IN /\ body' = filterUnsupportedBlocks(keyed.out)
             /\ keysUsed' = keyed.n
  /\ UNCHANGED <<md, rewritten, images, pt>>
  /\ UNCHANGED otherThanSplice

NextSplice == Extract \/ Convert \/ Splice
NextSpliceAny == Extract \/ ConvertAny \/ Splice

SpecSplice == InitSplice /\ [][NextSplice]_vars
SpecSpliceAny == InitSplice /\ [][NextSpliceAny]_vars

(***************************************************************************)
(* Properties of the body pipeline                                         *)
(***************************************************************************)
RefsOf(m) == SelectSeq(m, LAMBDA it : it.kind = "img")

ImageBlocksOf(blocks) == SelectSeq(blocks, LAMBDA b : b._type = "image")

TextBlocksOf(blocks) == SelectSeq(blocks, LAMBDA b : b._type = "block")

\* The converter's span that has the given origin, and the block that holds it.
HoldsOrigin(block, o) ==
  /\ HasChildren(block)
  /\ \E j \in 1..Len(block.children) : block.children[j].origin = o

SourceBlock(o) == pt[CHOOSE i \in 1..Len(pt) : HoldsOrigin(pt[i], o)]

SourceSpan(o) ==
  LET b == SourceBlock(o)
  IN b.children[CHOOSE j \in 1..Len(b.children) : b.children[j].origin = o]

\* A block of the body that splitBlockByTokensPreserveMarks built.
IsSplitProduct(block) ==
  /\ block._type = "block"
  /\ \A i \in 1..Len(pt) : pt[i] # block

AllTokens == {Token(n) : n \in 0..MaxItems}

TextHoldsToken(text) == \E t \in AllTokens : includes(text, t)

C3_SplitPreservesMarks ==
  stage = "spliced" =>
    \A i \in 1..Len(body) :
       body[i]._type = "block" =>
         \A j \in 1..Len(body[i].children) :
            LET c == body[i].children[j]
            IN /\ c.marks = SourceSpan(c.origin).marks
               /\ body[i].style = SourceBlock(c.origin).style
               /\ body[i].markDefs = SourceBlock(c.origin).markDefs
               /\ \A m \in 1..Len(c.marks) :
                    c.marks[m] = LinkDef._key =>
                      \E d \in 1..Len(body[i].markDefs) : body[i].markDefs[d] = LinkDef

\* A marked span of a heading was cut around a token: a fragment of it stands
\* in a paragraph before the image block and another in a paragraph after it.
C3_Witness ==
  /\ stage = "spliced"
  /\ \E i \in 1..Len(body) :
        /\ i + 2 <= Len(body)
        /\ IsSplitProduct(body[i])
        /\ body[i + 1]._type = "image"
        /\ IsSplitProduct(body[i + 2])
        /\ body[i].style = "h2"
        /\ \E j \in 1..Len(body[i].children), k \in 1..Len(body[i + 2].children) :
              /\ body[i].children[j].origin = body[i + 2].children[k].origin
              /\ body[i].children[j].marks = MarkedMarks

\* C4 as stated: no span text and no joined block text of the body holds a token.
C4_NoTokenSurvives ==
  stage = "spliced" =>
    \A i \in 1..Len(body) :
       HasChildren(body[i]) =>
         /\ ~TextHoldsToken(joinTexts(SpanTexts(body[i])))
         /\ \A j \in 1..Len(body[i].children) :
               \A k \in 1..Len(body[i].children[j].text) :
                  body[i].children[j].text[k] \notin {"]]]"} \cup {t[1] : t \in AllTokens}

(***************************************************************************)
(* slugify, paths, image types, document ids                               *)
(***************************************************************************)
UpperCase == <<"A", "B", "C", "D", "E", "F", "G", "H", "I", "J", "K", "L", "M",
               "N", "O", "P", "Q", "R", "S", "T", "U", "V", "W", "X", "Y", "Z">>
LowerCase == <<"a", "b", "c", "d", "e", "f", "g", "h", "i", "j", "k", "l", "m",
               "n", "o", "p", "q", "r", "s", "t", "u", "v", "w", "x", "y", "z">>
Digits == {"0", "1", "2", "3", "4", "5", "6", "7", "8", "9"}

toLowerCase(c) ==
  IF \E k \in 1..Len(UpperCase) : UpperCase[k] = c
  THEN LowerCase[CHOOSE k \in 1..Len(UpperCase) : UpperCase[k] = c]
  ELSE c

IsSlugChar(c) == c \in Digits \/ \E k \in 1..Len(LowerCase) : LowerCase[k] = c

\* .replace(/[^a-z0-9]+/g, "-") : every run of other characters becomes one "-"
RECURSIVE dashRuns(_, _)
dashRuns(s, inRun) ==
  IF s = <<>> THEN <<>>
  ELSE IF IsSlugChar(Head(s)) THEN <<Head(s)>> \o dashRuns(Tail(s), FALSE)
  ELSE IF inRun THEN dashRuns(Tail(s), TRUE)
  ELSE <<"-">> \o dashRuns(Tail(s), TRUE)

\* .replace(/(^-|-$)/g, "")
stripDashes(s) ==
  LET a == IF s # <<>> /\ Head(s) = "-" THEN Tail(s) ELSE s
  IN IF a # <<>> /\ a[Len(a)] = "-" THEN SubSeq(a, 1, Len(a) - 1) ELSE a

\* The slug of input; the empty slug stands for the Error slugify throws.
slugify(input) ==
  LET str == IF Falsy(input) THEN <<>> ELSE input
      low == [k \in 1..Len(trim(str)) |-> toLowerCase(trim(str)[k])]
  IN stripDashes(dashRuns(low, FALSE))

dirname(filePath) == SubSeq(filePath, 1, Len(filePath) - 1)
basename(filePath) == <<filePath[Len(filePath)]>>
isAbsolute(filePath) == filePath # <<>> /\ Head(filePath) = "/"

\* Undefined stands for null.
resolvePath(mdFilePath, maybeRelativePath) ==
  IF Falsy(maybeRelativePath) THEN Undefined
  ELSE IF isAbsolute(maybeRelativePath) THEN maybeRelativePath
  ELSE dirname(mdFilePath) \o maybeRelativePath

\* The image files on disk (fs.existsSync), and mime.getType by file name.
ExistingPaths == { <<"/", "d1", "/", "a">>, <<"/", "d1", "/", "b">>,
                   <<"/", "d1", "/", "t">>, <<"/", "d2", "/", "a">> }
existsSync(absPath) == absPath \in ExistingPaths

getType(absPath) == IF basename(absPath) = <<"t">> THEN "text/plain" ELSE "image/png"

VALID_IMAGE_TYPES == {"image/jpeg", "image/png", "image/gif", "image/webp",
                      "image/svg+xml", "image/avif"}

\* validateImageType throws
InvalidImageType(absPath) == getType(absPath) \notin VALID_IMAGE_TYPES

\* makeDocumentId that puts the time of the call in the id.
makeDocumentIdTimestamped(type, slug, draft) ==
  LET baseId == <<type, "-">> \o slug \o <<"-", ToString(clock)>>
  IN IF draft THEN <<"drafts.">> \o baseId ELSE baseId

makeDocumentId(type, slug, draft) ==
  LET baseId == <<type, "-">> \o slug
  IN IF draft THEN <<"drafts.">> \o baseId ELSE baseId

maxRetries == 3

(***************************************************************************)
(* uploadImageAsset up to its first suspension.  u holds the asset cache,  *)
(* the in-flight map and the network log; the result adds status:          *)
(* "resolved" (the id is known), "pending" (the caller waits for an upload *)
(* in flight) or "rejected".  uploadPromises[p] is the number of the       *)
(* upload attempt in flight, or 0 for a promise that was rejected before   *)
(* any upload started and is deleted when the caller resumes.              *)
(***************************************************************************)
Put(f, k, v) == [x \in DOMAIN f \cup {k} |-> IF x = k THEN v ELSE f[x]]
\* Map.prototype.delete that deletes nothing.
DropNothing(f, k) == f

Drop(f, k) == [x \in DOMAIN f \ {k} |-> f[x]]
Count(f, k) == IF k \in DOMAIN f THEN f[k] ELSE 0

\* The network log counts the invocations of an operation up to CallCap.
Bump(n) == IF n < CallCap THEN n + 1 ELSE n

\* uploadImageAsset without the check of the in-flight map.
uploadImageAssetNoInFlightCheck(u, absPath, write) ==
  IF absPath \in DOMAIN u.assetCache
  THEN [u EXCEPT !.status = "resolved", !.calls.cacheHits = @ \cup {absPath}]
  ELSE IF InvalidImageType(absPath)
  THEN [u EXCEPT !.status = "rejected", !.uploadPromises = Put(@, absPath, 0)]
  ELSE IF ~write
  THEN IF slugify(basename(absPath)) = <<>>
       THEN [u EXCEPT !.status = "rejected", !.uploadPromises = Put(@, absPath, 0)]
       ELSE [u EXCEPT !.status = "resolved",
                      !.assetCache = Put(@, absPath,
                                         <<"dry.asset.">> \o slugify(basename(absPath)))]
  ELSE [u EXCEPT !.status = "pending",
                 !.uploadPromises = Put(@, absPath, 1),
                 !.calls.upload = Put(@, absPath, Bump(Count(@, absPath)))]

uploadImageAsset(u, absPath, write) ==
  IF absPath \in DOMAIN u.assetCache
  THEN [u EXCEPT !.status = "resolved", !.calls.cacheHits = @ \cup {absPath}]
  ELSE IF absPath \in DOMAIN u.uploadPromises
  THEN IF u.uploadPromises[absPath] = 0
       THEN [u EXCEPT !.status = "rejected"]
       ELSE [u EXCEPT !.status = "pending", !.calls.joined = @ \cup {absPath}]
  ELSE IF InvalidImageType(absPath)
  THEN [u EXCEPT !.status = "rejected", !.uploadPromises = Put(@, absPath, 0)]
  ELSE IF ~write
  THEN IF slugify(basename(absPath)) = <<>>
       THEN [u EXCEPT !.status = "rejected", !.uploadPromises = Put(@, absPath, 0)]
       ELSE [u EXCEPT !.status = "resolved",
                      !.assetCache = Put(@, absPath,
                                         <<"dry.asset.">> \o slugify(basename(absPath)))]
  ELSE [u EXCEPT !.status = "pending",
                 !.uploadPromises = Put(@, absPath, 1),
                 !.calls.upload = Put(@, absPath, Bump(Count(@, absPath)))]

\* finally { uploadPromises.delete(absPath) } of the calls that were rejected at once
dropRejected(promises) == [x \in {y \in DOMAIN promises : promises[y] # 0} |-> promises[x]]

\* imageData.map(async (img) => uploadImageAsset(img.absPath)) : every call is
\* made before any is awaited.  acc = [u, statuses].
RECURSIVE fanOut(_, _, _, _)
fanOut(absPaths, k, acc, write) ==
  IF k > Len(absPaths) THEN acc
  ELSE LET r == uploadImageAsset(acc.u, absPaths[k], write)
       IN fanOut(absPaths, k + 1,
                 [u |-> r, statuses |-> Append(acc.statuses, r.status)], write)

(***************************************************************************)
(* validateFrontmatter on every frontmatter over a small set of values     *)
(***************************************************************************)
FieldValues == {Undefined, <<>>, <<"x">>}
DateValues == {Undefined, <<>>, <<"2", "0", "2", "4">>, <<"s", "o", "o", "n">>}

InitValidate ==
  /\ vfm \in [title : FieldValues, author : FieldValues, authorId : FieldValues,
              mainImage : FieldValues, mainImageAlt : FieldValues,
              publishedAt : DateValues]
  /\ vresult = [called |-> FALSE, threw |-> FALSE, errors |-> <<>>]
  /\ SpliceIdle
  /\ DriverIdle
  /\ RetryIdle

Validate ==
  /\ ~vresult.called
  /\ vresult' = [called |-> TRUE,
                 threw |-> validateFrontmatter(vfm).threw,
                 errors |-> validateFrontmatter(vfm).errors]
  /\ UNCHANGED vfm
  /\ UNCHANGED otherThanValidate

NextValidate == Validate

SpecValidate == InitValidate /\ [][NextValidate]_vars

\* A field is missing when it is absent or empty; publishedAt is present when
\* it is neither.
Missing(v) == v \in {Undefined, <<>>}

Violations(fm) ==
  {e \in {"missing 'title'", "missing 'author' or 'authorId'", "missing 'mainImage'",
          "missing 'mainImageAlt'", "invalid 'publishedAt' date"} :
     \/ e = "missing 'title'" /\ Missing(fm.title)
     \/ e = "missing 'author' or 'authorId'" /\ Missing(fm.author) /\ Missing(fm.authorId)
     \/ e = "missing 'mainImage'" /\ Missing(fm.mainImage)
     \/ e = "missing 'mainImageAlt'" /\ Missing(fm.mainImageAlt)
     \/ e = "invalid 'publishedAt' date"
          /\ ~Missing(fm.publishedAt) /\ fm.publishedAt # <<"2", "0", "2", "4">>}

\* C8: validation fails exactly when a violation holds, and the one failure
\* names every violation that holds, each once.
C8_ValidationListsEveryViolation ==
  vresult.called =>
    /\ vresult.threw <=> Violations(vfm) # {}
    /\ {vresult.errors[k] : k \in 1..Len(vresult.errors)} = Violations(vfm)
    /\ Len(vresult.errors) = Cardinality(Violations(vfm))

\* mainImage and mainImageAlt are both missing, and so is nothing else.
C8_Witness ==
  /\ vresult.called
  /\ Missing(vfm.mainImage) /\ Missing(vfm.mainImageAlt)
  /\ ~Missing(vfm.title) /\ ~Missing(vfm.author)
  /\ vresult.threw
  /\ vresult.errors = <<"missing 'mainImage'", "missing 'mainImageAlt'">>

(***************************************************************************)
(* The driver: main() and importFile() over a set of files                 *)
(***************************************************************************)
Ann == <<"A", "n", "n">>
AuthorX == <<"author", "-", "x">>

FM(title, slug, author, authorId, mainImage, mainImageAlt, publishedAt) ==
  [title |-> title, slug |-> slug, author |-> author, authorId |-> authorId,
   mainImage |-> mainImage, mainImageAlt |-> mainImageAlt, publishedAt |-> publishedAt]

CatRef == ImageRef(<<" ", "c", "a", "t">>, <<"a">>, <<"A", " ", "c", "a", "t">>)
PlainRef(src) == ImageRef(<<>>, src, <<>>)

\* The files a run can discover.  Two of them have the slug a-b; one names its
\* author by id; one fails validation; one has no cover file; one has an
\* inline image of a type that is not allowed; one has two inline images of
\* two paths that no other reference of the file uploads first.
FileKinds ==
  { [path |-> <<"/", "d1", "/", "f1">>,
     fm |-> FM(<<"A", " ", "b">>, Undefined, Ann, Undefined, <<"a">>, <<"x">>, Undefined),
     content |-> <<TextItem("a"), CatRef, PlainRef(<<"b">>)>>],
    [path |-> <<"/", "d1", "/", "f2">>,
     fm |-> FM(<<"a", "-", "b", "!">>, Undefined, Undefined, AuthorX,
               <<"/", "d1", "/", "a">>, <<"x">>, <<"2", "0", "2", "4">>),
     content |-> <<PlainRef(<<"b">>), PlainRef(<<"b">>)>>],
    [path |-> <<"/", "d2", "/", "f3">>,
     fm |-> FM(<<"T">>, <<"c">>, Ann, Undefined, <<"a">>, <<"x">>, Undefined),
     content |-> <<TextItem("a")>>],
    [path |-> <<"/", "d1", "/", "f4">>,
     fm |-> FM(<<"d">>, Undefined, Ann, Undefined, Undefined, <<>>, Undefined),
     content |-> <<>>],
    [path |-> <<"/", "d1", "/", "f5">>,
     fm |-> FM(<<"c">>, Undefined, Ann, Undefined, <<"m">>, <<"x">>, Undefined),
     content |-> <<>>],
    [path |-> <<"/", "d1", "/", "f6">>,
     fm |-> FM(<<"e">>, Undefined, Ann, Undefined, <<"a">>, <<"x">>, Undefined),
     content |-> <<PlainRef(<<"t">>), PlainRef(<<"b">>)>>],
    [path |-> <<"/", "d1", "/", "f7">>,
     fm |-> FM(<<"g">>, Undefined, Ann, Undefined, <<"b">>, <<"x">>, Undefined),
     content |-> <<PlainRef(<<"a">>), TextItem("a"),
                   ImageRef(<<"c">>, <<"/", "d2", "/", "a">>, <<>>)>>] }

\* The order in which globSync lists two files: /d1/f6 < /d1/f1 < ... < /d1/f5 < /d1/f7
ListedBefore(p, q) ==
  LET rank(x) == CASE x[4] = "f6" -> 0 [] x[4] = "f1" -> 1 [] x[4] = "f2" -> 2
                   [] x[4] = "f3" -> 3 [] x[4] = "f4" -> 4 [] x[4] = "f5" -> 5
                   [] OTHER -> 6
  IN rank(p) < rank(q)

\* globSync: any list of distinct files, in directory order
FileLists ==
  {fs \in UNION {[1..n -> FileKinds] : n \in 0..NumFiles} :
     \A j, k \in 1..Len(fs) : j < k => ListedBefore(fs[j].path, fs[k].path)}

authorDoc(id, name, slug) ==
  [_id |-> id, _type |-> "author", name |-> name, slug |-> slug]

\* The backend before the run: empty, or holding the author Ann under the id author-x.
InitialDatasets == { <<>>, Put(<<>>, AuthorX, authorDoc(AuthorX, Ann, <<"x">>)) }

\* The values generateKey() can start from in one call of
\* markdownToPortableTextWithInlineImages: its keys are random.
KeySeeds == {0, 7}

InitDriver ==
  /\ pc = "loop" /\ fileIdx = 1 /\ ok = 0 /\ fail = 0 /\ skipped = 0
  /\ slugToFile = <<>> /\ assetCache = <<>> /\ uploadPromises = <<>>
  /\ pending = {} /\ cur = NoCur /\ exitCode = -1
  /\ calls = NoCalls /\ warnings = {} /\ results = <<>>
  /\ clock = 0 /\ run = 1 /\ firstRun = <<>>
  /\ files \in FileLists
  /\ dataset \in InitialDatasets
  /\ SpliceIdle
  /\ ValidateIdle
  /\ RetryIdle

Init ==
  /\ InitDriver
  /\ WRITE \in BOOLEAN /\ CHECK \in BOOLEAN
  /\ ONLY_SLUG \in {Undefined, <<"a", "-", "b">>}
  /\ DRAFT \in IF WRITE /\ ~CHECK /\ ONLY_SLUG = Undefined THEN BOOLEAN ELSE {FALSE}
  /\ network = {"ok", "retryable", "fatal"}

\* ---- the per-file boundary of main(): lines 804-813 ----
\* The run stops at the first file that fails.
FinishAbortOnError(kind) ==
  /\ ok' = IF kind = "ok" THEN ok + 1 ELSE ok
  /\ skipped' = IF kind = "skipped" THEN skipped + 1 ELSE skipped
  /\ fail' = IF kind = "fail" THEN fail + 1 ELSE fail
  /\ results' = Append(results, kind)
  /\ fileIdx' = fileIdx + 1
  /\ pc' = IF kind = "fail" THEN "done" ELSE "loop"
  /\ pending' = {}
  /\ cur' = NoCur

\* importFile returned (kind "ok" or "skipped") or threw (kind "fail").
Finish(kind) ==
  /\ ok' = IF kind = "ok" THEN ok + 1 ELSE ok
  /\ skipped' = IF kind = "skipped" THEN skipped + 1 ELSE skipped
  /\ fail' = IF kind = "fail" THEN fail + 1 ELSE fail
  /\ results' = Append(results, kind)
  /\ fileIdx' = fileIdx + 1
  /\ pc' = "loop"
  /\ pending' = {}
  /\ cur' = NoCur

\* Continue that counts a success at every step of importFile.
ContinueCounted(next, c) ==
  /\ pc' = next
  /\ cur' = c
  /\ ok' = ok + 1
  /\ UNCHANGED <<fail, skipped, fileIdx, results>>

\* importFile goes on to its next step.
Continue(next, c) ==
  /\ pc' = next
  /\ cur' = c
  /\ UNCHANGED tallyVars

\* withRetry: what follows an attempt that ended with outcome o.
retryStep(o, attempt) ==
  IF o = "ok" THEN "return"
  ELSE IF attempt = maxRetries \/ o # "retryable" THEN "throw"
  ELSE "retry"

\* checkSlugCollision that records the slug and never warns.
checkSlugCollisionSilent(map, slug, currentFile) ==
  [collision |-> FALSE, slugToFile |-> Put(map, slug, currentFile), warned |-> {}]

\* checkSlugCollision: [collision, slugToFile, warned]
checkSlugCollision(map, slug, currentFile) ==
  IF slug \in DOMAIN map /\ map[slug] # currentFile
  THEN [collision |-> TRUE, slugToFile |-> map,
        warned |-> {[slug |-> slug, existingFile |-> map[slug],
                     currentFile |-> currentFile]}]
  ELSE [collision |-> FALSE, slugToFile |-> Put(map, slug, currentFile), warned |-> {}]

slugOf(fm) == IF ~Falsy(fm.slug) THEN fm.slug ELSE slugify(fm.title)

\* ImportBegin that does not look at the --only slug.
ImportBeginNoFilter ==
  /\ pc = "loop" /\ fileIdx <= Len(files)
  /\ clock' = clock + 1
  /\ LET f == files[fileIdx]
         slug == slugOf(f.fm)
         c == checkSlugCollision(slugToFile, slug, f.path)
     IN IF validateFrontmatter(f.fm).threw \/ slug = <<>>
        THEN Finish("fail") /\ UNCHANGED <<slugToFile, warnings>>
        ELSE /\ slugToFile' = c.slugToFile
             /\ warnings' = warnings \cup c.warned
             /\ IF FALSE
                THEN Finish("skipped")
                ELSE /\ Continue("author",
                           [NoCur EXCEPT !.slug = slug,
                                         !.publishedAt =
                                            IF Falsy(f.fm.publishedAt)
                                            THEN <<"now", ToString(clock + 1)>>
                                            ELSE f.fm.publishedAt,
                                         !.attempt = 1])
                     /\ pending' = pending
  /\ UNCHANGED <<configVars, uploadVars, exitCode, dataset, run, firstRun>>
  /\ UNCHANGED otherThanDriver

\* importFile, lines 703-728
ImportBegin ==
  /\ pc = "loop" /\ fileIdx <= Len(files)
  /\ clock' = clock + 1
  /\ LET f == files[fileIdx]
         slug == slugOf(f.fm)
         c == checkSlugCollision(slugToFile, slug, f.path)
     IN IF validateFrontmatter(f.fm).threw \/ slug = <<>>
        THEN Finish("fail") /\ UNCHANGED <<slugToFile, warnings>>
        ELSE /\ slugToFile' = c.slugToFile
             /\ warnings' = warnings \cup c.warned
             /\ IF ~Falsy(ONLY_SLUG) /\ slug # ONLY_SLUG
                THEN Finish("skipped")
                ELSE /\ Continue("author",
                           [NoCur EXCEPT !.slug = slug,
                                         !.publishedAt =
                                            IF Falsy(f.fm.publishedAt)
                                            THEN <<"now", ToString(clock + 1)>>
                                            ELSE f.fm.publishedAt,
                                         !.attempt = 1])
                     /\ pending' = pending
  /\ UNCHANGED <<configVars, uploadVars, exitCode, dataset, run, firstRun>>
  /\ UNCHANGED otherThanDriver

\* A lookup by name that finds no one.
authorsNamedNone(ds, name) == {}

\* *[_type=="author" && name==$name] : the ids of the authors of that name
authorsNamed(ds, name) == {id \in DOMAIN ds : ds[id]._type = "author" /\ ds[id].name = name}

\* ensureAuthor, lines 300-323: one attempt of client.fetch
AuthorFetch ==
  /\ pc = "author"
  /\ \E o \in network :
       LET fm == files[fileIdx].fm
           step == retryStep(o, cur.attempt)
           matches == authorsNamed(dataset, fm.author)
           s == slugify(fm.author)
           id == makeDocumentId("author", s, DRAFT)
       IN /\ calls' = [calls EXCEPT !.fetch = Bump(@), !.failed = @ \/ o # "ok"]
          /\ IF step = "retry"
             THEN Continue("author", [cur EXCEPT !.attempt = @ + 1]) /\ pending' = pending
             ELSE IF step = "throw" THEN Finish("fail")
             ELSE IF ~Falsy(fm.authorId)
             THEN IF fm.authorId \in DOMAIN dataset
                  THEN /\ Continue("cover", [cur EXCEPT !.authorRef = fm.authorId])
                       /\ pending' = pending
                  ELSE Finish("fail")
             ELSE IF matches # {}
             THEN \E m \in matches :
                     Continue("cover", [cur EXCEPT !.authorRef = m]) /\ pending' = pending
             ELSE IF s = <<>> THEN Finish("fail")
             ELSE IF ~WRITE
             THEN Continue("cover", [cur EXCEPT !.authorRef = id]) /\ pending' = pending
             ELSE /\ Continue("create", [cur EXCEPT !.authorRef = id, !.attempt = 1])
                  /\ pending' = pending
  /\ UNCHANGED <<configVars, assetCache, uploadPromises, slugToFile, exitCode, dataset,
                 warnings, clock, run, firstRun>>
  /\ UNCHANGED otherThanDriver

\* ensureAuthor, lines 325-336: one attempt of client.createIfNotExists
AuthorCreate ==
  /\ pc = "create"
  /\ \E o \in network :
       LET step == retryStep(o, cur.attempt)
           author == files[fileIdx].fm.author
       IN /\ calls' = [calls EXCEPT !.createIfNotExists = Bump(@), !.failed = @ \/ o # "ok"]
          /\ IF step = "retry"
             THEN /\ Continue("create", [cur EXCEPT !.attempt = @ + 1])
                  /\ UNCHANGED <<pending, dataset>>
             ELSE IF step = "throw" THEN Finish("fail") /\ UNCHANGED dataset
             ELSE /\ dataset' = IF cur.authorRef \in DOMAIN dataset THEN dataset
                                ELSE Put(dataset, cur.authorRef,
                                         authorDoc(cur.authorRef, author, slugify(author)))
                  /\ Continue("cover", cur)
                  /\ pending' = pending
  /\ UNCHANGED <<configVars, assetCache, uploadPromises, slugToFile, exitCode,
                 warnings, clock, run, firstRun>>
  /\ UNCHANGED otherThanDriver

uploadState == [assetCache |-> assetCache, uploadPromises |-> uploadPromises,
                calls |-> calls, status |-> "none"]

\* importFile, lines 734-739: the cover image
Cover ==
  /\ pc = "cover"
  /\ LET absCover == resolvePath(files[fileIdx].path, files[fileIdx].fm.mainImage)
         r == uploadImageAsset(uploadState, absCover, WRITE)
     IN IF absCover = Undefined \/ ~existsSync(absCover)
        THEN Finish("fail") /\ UNCHANGED uploadVars
        ELSE /\ assetCache' = r.assetCache
             /\ uploadPromises' = dropRejected(r.uploadPromises)
             /\ calls' = r.calls
             /\ IF r.status = "rejected" THEN Finish("fail")
                ELSE IF r.status = "resolved"
                THEN Continue("body", cur) /\ pending' = {}
                ELSE Continue("awaitCover", cur) /\ pending' = {absCover}
  /\ UNCHANGED <<configVars, slugToFile, exitCode, dataset, warnings, clock, run, firstRun>>
  /\ UNCHANGED otherThanDriver

absPathsOf(f) ==
  LET imgs == extractInlineImages(f.content).images
  IN [k \in 1..Len(imgs) |-> resolvePath(f.path, imgs[k].src)]

\* markdownToPortableTextWithInlineImages, lines 652-680: up to Promise.all
Body ==
  /\ pc = "body"
  /\ LET absPaths == absPathsOf(files[fileIdx])
         r == fanOut(absPaths, 1, [u |-> uploadState, statuses |-> <<>>], WRITE)
     IN IF Len(absPaths) = 0
        THEN Continue("assemble", cur) /\ pending' = {} /\ UNCHANGED uploadVars
        ELSE IF \E k \in 1..Len(absPaths) :
                   absPaths[k] = Undefined \/ ~existsSync(absPaths[k])
        THEN Finish("fail") /\ UNCHANGED uploadVars
        ELSE /\ assetCache' = r.u.assetCache
             /\ uploadPromises' = dropRejected(r.u.uploadPromises)
             /\ calls' = r.u.calls
             /\ IF \E k \in 1..Len(absPaths) : r.statuses[k] = "rejected"
                THEN Finish("fail")
                ELSE /\ Continue("awaitInline", cur)
                     /\ pending' = {absPaths[k] : k \in {l \in 1..Len(absPaths) :
                                                           r.statuses[l] = "pending"}}
  /\ UNCHANGED <<configVars, slugToFile, exitCode, dataset, warnings, clock, run, firstRun>>
  /\ UNCHANGED otherThanDriver

\* The awaited uploads have all resolved: importFile resumes.
Resume ==
  /\ pc \in {"awaitCover", "awaitInline"}
  /\ pending = {}
  /\ Continue(IF pc = "awaitCover" THEN "body" ELSE "assemble", cur)
  /\ UNCHANGED <<configVars, uploadVars, slugToFile, pending, exitCode, dataset, warnings,
                 clock, run, firstRun>>
  /\ UNCHANGED otherThanDriver

\* The converter as the driver sees it: it ends a block at every blank line.
paragraphLayout(rw) == [k \in 1..Len(rw) |-> IF rw[k] = BlankLine THEN "cut" ELSE "join"]

\* bodyOf that takes the k-th asset from the k-th upload of the file to complete.
bodyOfCompletionOrder(f, seed, cache) ==
  LET ex == extractInlineImages(f.content)
      conv == ensureKeys(markdownToPortableText(ex.rewrittenMarkdown,
                           paragraphLayout(ex.rewrittenMarkdown),
                           [heading |-> FALSE, keyed |-> TRUE, code |-> FALSE]), seed)
      blocks == filterUnsupportedBlocks(conv.out)
      mine == SelectSeq(calls.settled,
                        LAMBDA p : \E k \in 1..Len(ex.images) : absPathsOf(f)[k] = p)
      assetIds == [k \in 1..Len(ex.images) |->
                     IF k <= Len(mine) THEN cache[mine[k]] ELSE cache[absPathsOf(f)[k]]]
      result == replaceTokensWithImageBlocksPreserveMarks(
                  blocks, tokensOf(ex.images), tokenToImageBlockOf(ex.images, assetIds),
                  conv.n)
  IN IF Len(ex.images) = 0 THEN blocks
     ELSE filterUnsupportedBlocks(ensureKeys(result.out, result.n).out)

\* markdownToPortableTextWithInlineImages, its result; seed is where the
\* random keys of this call start.
bodyOf(f, seed, cache) ==
  LET ex == extractInlineImages(f.content)
      conv == ensureKeys(markdownToPortableText(ex.rewrittenMarkdown,
                           paragraphLayout(ex.rewrittenMarkdown),
                           [heading |-> FALSE, keyed |-> TRUE, code |-> FALSE]), seed)
      blocks == filterUnsupportedBlocks(conv.out)
      assetIds == [k \in 1..Len(ex.images) |-> cache[absPathsOf(f)[k]]]
      result == replaceTokensWithImageBlocksPreserveMarks(
                  blocks, tokensOf(ex.images), tokenToImageBlockOf(ex.images, assetIds),
                  conv.n)
  IN IF Len(ex.images) = 0 THEN blocks
     ELSE filterUnsupportedBlocks(ensureKeys(result.out, result.n).out)

\* importFile, lines 741-763
postDoc(f, c, seed, cache, draft) ==
  [_id |-> makeDocumentId("post", c.slug, draft),
   _type |-> "post",
   title |-> f.fm.title,
   slug |-> [_type |-> "slug", current |-> c.slug],
   author |-> [_type |-> "reference", _ref |-> c.authorRef],
   mainImage |-> [_type |-> "image",
                  asset |-> [_type |-> "reference",
                             _ref |-> cache[resolvePath(f.path, f.fm.mainImage)]],
                  alt |-> f.fm.mainImageAlt],
   publishedAt |-> c.publishedAt,
   body |-> bodyOf(f, seed, cache)]

\* Assemble that hands the document to the sink whatever the write flag says.
AssembleAlwaysWrites ==
  /\ pc = "assemble"
  /\ \E seed \in KeySeeds :
        /\ Continue("upsert",
              [cur EXCEPT !.doc = postDoc(files[fileIdx], cur, seed, assetCache, DRAFT),
                          !.attempt = 1])
        /\ pending' = pending
  /\ UNCHANGED <<configVars, uploadVars, slugToFile, exitCode, dataset, warnings, clock,
                 run, firstRun>>
  /\ UNCHANGED otherThanDriver

\* markdownToPortableTextWithInlineImages from line 682, importFile lines 741-768
Assemble ==
  /\ pc = "assemble"
  /\ \E seed \in KeySeeds :
        IF ~WRITE THEN Finish("ok")
        ELSE /\ Continue("upsert",
                   [cur EXCEPT !.doc = postDoc(files[fileIdx], cur, seed, assetCache, DRAFT),
                               !.attempt = 1])
             /\ pending' = pending
  /\ UNCHANGED <<configVars, uploadVars, slugToFile, exitCode, dataset, warnings, clock,
                 run, firstRun>>
  /\ UNCHANGED otherThanDriver

\* importFile, lines 770-775: one attempt of client.createOrReplace
Upsert ==
  /\ pc = "upsert"
  /\ \E o \in network :
       LET step == retryStep(o, cur.attempt)
       IN /\ calls' = [calls EXCEPT !.createOrReplace = Bump(@), !.failed = @ \/ o # "ok"]
          /\ IF step = "retry"
             THEN /\ Continue("upsert", [cur EXCEPT !.attempt = @ + 1])
                  /\ UNCHANGED <<pending, dataset>>
             ELSE IF step = "throw" THEN Finish("fail") /\ UNCHANGED dataset
             ELSE /\ dataset' = Put(dataset, cur.doc._id, cur.doc)
                  /\ Finish("ok")
  /\ UNCHANGED <<configVars, assetCache, uploadPromises, slugToFile, exitCode,
                 warnings, clock, run, firstRun>>
  /\ UNCHANGED otherThanDriver

\* uploadImageAsset, lines 269-285: one attempt of client.assets.upload for
\* absPath ends.  The file that awaits a failed upload fails with it.
UploadSettle ==
  /\ exitCode # 2
  /\ \E absPath \in DOMAIN uploadPromises, o \in network :
       LET step == retryStep(o, uploadPromises[absPath])
       IN IF step = "return"
          THEN /\ assetCache' = Put(assetCache, absPath, RemoteAssetId(absPath))
               /\ uploadPromises' = Drop(uploadPromises, absPath)
               /\ pending' = pending \ {absPath}
               /\ calls' = [calls EXCEPT !.settled = Append(@, absPath)]
               /\ UNCHANGED <<tallyVars, pc, cur>>
          ELSE IF step = "retry"
          THEN /\ uploadPromises' = Put(uploadPromises, absPath, uploadPromises[absPath] + 1)
               /\ calls' = [calls EXCEPT !.upload = Put(@, absPath, Bump(Count(@, absPath))),
                                         !.uploadFailed = @ \cup {absPath},
                                         !.failed = TRUE]
               /\ UNCHANGED <<assetCache, pending, tallyVars, pc, cur>>
          ELSE /\ uploadPromises' = Drop(uploadPromises, absPath)
               /\ calls' = [calls EXCEPT !.uploadFailed = @ \cup {absPath}, !.failed = TRUE,
                                         !.gaveUp = @ \cup {absPath}]
               /\ UNCHANGED assetCache
               /\ IF absPath \in pending THEN Finish("fail")
                  ELSE UNCHANGED <<pending, tallyVars, pc, cur>>
  /\ UNCHANGED <<configVars, slugToFile, exitCode, dataset, warnings, clock, run, firstRun>>
  /\ UNCHANGED otherThanDriver

\* main, lines 791-794
NoFiles ==
  /\ pc = "loop" /\ Len(files) = 0
  /\ pc' = "done"
  /\ exitCode' = 0
  /\ UNCHANGED <<configVars, tallyVars, uploadVars, slugToFile, pending, cur, dataset,
                 warnings, clock, run, firstRun>>
  /\ UNCHANGED otherThanDriver

\* Summary that lets the process end with status 0 whatever failed.
SummaryExitsZero ==
  /\ pc = "loop" /\ Len(files) > 0 /\ fileIdx > Len(files)
  /\ pc' = "done"
  /\ exitCode' = 0
  /\ UNCHANGED <<configVars, tallyVars, uploadVars, slugToFile, pending, cur, dataset,
                 warnings, clock, run, firstRun>>
  /\ UNCHANGED otherThanDriver

\* main, lines 816-823
Summary ==
  /\ pc = "loop" /\ Len(files) > 0 /\ fileIdx > Len(files)
  /\ pc' = "done"
  /\ exitCode' = IF CHECK /\ fail > 0 THEN 2 ELSE 0
  /\ UNCHANGED <<configVars, tallyVars, uploadVars, slugToFile, pending, cur, dataset,
                 warnings, clock, run, firstRun>>
  /\ UNCHANGED otherThanDriver

\* The importer is started a second time on the same files, once the first
\* process has ended: the run-scoped maps and counters start empty, the
\* backend keeps its documents.
SecondRun ==
  /\ pc = "done" /\ run = 1 /\ DOMAIN uploadPromises = {}
  /\ run' = run + 1
  /\ firstRun' = dataset
  /\ pc' = "loop" /\ fileIdx' = 1 /\ ok' = 0 /\ fail' = 0 /\ skipped' = 0
  /\ results' = <<>> /\ warnings' = {}
  /\ slugToFile' = <<>> /\ assetCache' = <<>> /\ calls' = NoCalls
  /\ exitCode' = -1
  /\ UNCHANGED <<configVars, uploadPromises, pending, cur, dataset, clock>>
  /\ UNCHANGED otherThanDriver

Next ==
  \/ NoFiles \/ ImportBegin \/ AuthorFetch \/ AuthorCreate \/ Cover \/ Body \/ Resume
  \/ Assemble \/ Upsert \/ UploadSettle \/ Summary

Spec == Init /\ [][Next]_vars

\* Two runs in write mode against a backend whose operations succeed.
InitTwoRuns ==
  /\ InitDriver
  /\ WRITE = TRUE /\ CHECK = FALSE /\ DRAFT \in BOOLEAN
  /\ ONLY_SLUG = Undefined
  /\ network = {"ok"}

NextTwoRuns == Next \/ SecondRun

SpecTwoRuns == InitTwoRuns /\ [][NextTwoRuns]_vars

(***************************************************************************)
(* Properties of the driver                                                *)
(***************************************************************************)
\* The slug importFile computes for f; the empty slug when f fails before.
validSlug(f) == IF validateFrontmatter(f.fm).threw THEN <<>> ELSE slugOf(f.fm)

\* importFile has been entered for the k-th file.
Begun(k) == k < fileIdx \/ (k = fileIdx /\ pc \notin {"loop", "done"})

\* The k-th file has the slug of a file listed before it.
Collides(k) ==
  /\ validSlug(files[k]) # <<>>
  /\ \E j \in 1..(k - 1) : validSlug(files[j]) = validSlug(files[k])

IsPost(doc) == doc._type = "post"

HasImageBlock(doc) == \E k \in 1..Len(doc.body) : doc.body[k]._type = "image"

\* C1: in write mode, a path none of whose upload attempts failed has had the
\* upload operation invoked exactly once, however many requests there were for
\* it; its upload is in flight or its result is the cached id.
C1_OneUploadPerPath ==
  WRITE =>
    /\ \A absPath \in DOMAIN calls.upload :
          absPath \notin calls.uploadFailed =>
            /\ calls.upload[absPath] = 1
            /\ absPath \in DOMAIN assetCache \/ absPath \in DOMAIN uploadPromises
            /\ absPath \in DOMAIN assetCache => assetCache[absPath] = RemoteAssetId(absPath)
    /\ calls.joined \cup calls.cacheHits \subseteq DOMAIN calls.upload

\* One request joined an upload in flight and one was served from the cache.
C1_Witness ==
  /\ WRITE
  /\ calls.uploadFailed = {}
  /\ \E absPath \in calls.joined :
        absPath \in DOMAIN assetCache /\ calls.upload[absPath] = 1
  /\ \E absPath \in calls.cacheHits : calls.upload[absPath] = 1

\* The parts of a document that a run decides by itself: the random keys of
\* the body, and the publish time when the frontmatter gives none.
stripKey(x) == [x EXCEPT !._key = NoKey]

stripKeys(blocks) ==
  [k \in 1..Len(blocks) |->
     IF HasChildren(blocks[k])
     THEN [stripKey(blocks[k]) EXCEPT
             !.children = [j \in 1..Len(blocks[k].children) |->
                             stripKey(blocks[k].children[j])]]
     ELSE stripKey(blocks[k])]

OmitsPublishedAt(doc) ==
  \E k \in 1..Len(files) :
     files[k].fm.title = doc.title /\ Falsy(files[k].fm.publishedAt)

Stable(doc) ==
  IF ~IsPost(doc) THEN doc
  ELSE [doc EXCEPT !.body = stripKeys(@),
                   !.publishedAt = IF OmitsPublishedAt(doc) THEN <<>> ELSE @]

C6_DryRunNeverWrites ==
  ~WRITE =>
    /\ DOMAIN calls.upload = {}
    /\ calls.createIfNotExists = 0
    /\ calls.createOrReplace = 0

\* A dry run has ended with a file that succeeded and a file that failed.
C6_Witness ==
  /\ ~WRITE
  /\ pc = "done"
  /\ ok > 0 /\ fail > 0
  /\ DOMAIN assetCache # {}

\* C7 as stated: in simulate mode no network operation at all is invoked,
\* the read queries of ensureAuthor included.
C7_NoNetworkInSimulate ==
  ~WRITE =>
    /\ calls.fetch = 0
    /\ DOMAIN calls.upload = {}
    /\ calls.createIfNotExists = 0
    /\ calls.createOrReplace = 0

\* C9, the warning: a file that has been begun and has the slug of an earlier
\* file has a warning that names an earlier file of that slug and itself.
C9_Warned ==
  \A k \in 1..Len(files) :
     Begun(k) /\ Collides(k) =>
       \E w \in warnings :
          /\ w.slug = validSlug(files[k])
          /\ w.currentFile = files[k].path
          /\ \E j \in 1..(k - 1) :
                w.existingFile = files[j].path /\ validSlug(files[j]) = w.slug

\* C9, the overwrite: in write mode the document under a post id is that of the
\* last file of that slug that was imported.
C9_LastWriterWins ==
  WRITE =>
    \A k \in 1..Len(results) :
       results[k] = "ok" =>
         LET same == {l \in 1..Len(results) :
                        results[l] = "ok" /\ validSlug(files[l]) = validSlug(files[k])}
             last == CHOOSE l \in same : \A m \in same : m <= l
             id == makeDocumentId("post", validSlug(files[k]), DRAFT)
         IN /\ id \in DOMAIN dataset
            /\ dataset[id].title = files[last].fm.title

\* C9: the warning is logged, the step that logs it counts no failure, and the
\* later file's document replaces the earlier one.
C9_CollisionWarnsAndOverwrites ==
  /\ [](C9_Warned /\ C9_LastWriterWins)
  /\ [][(pc = "loop" /\ fileIdx <= Len(files) /\ Collides(fileIdx)) => fail' = fail]_vars

\* Two files with one slug were both imported in write mode.
C9_Witness ==
  /\ WRITE
  /\ pc = "done"
  /\ results = <<"ok", "ok">>
  /\ Collides(2)
  /\ Cardinality(warnings) = 1
  /\ dataset[makeDocumentId("post", validSlug(files[2]), DRAFT)].title = files[2].fm.title

\* C10, in a state: every file begun so far has one outcome, the failures are
\* counted one each, and at the end every file has an outcome.
C10_Counted ==
  /\ Len(results) = fileIdx - 1
  /\ fail = Cardinality({k \in 1..Len(results) : results[k] = "fail"})
  /\ pc \notin {"loop", "done"} => fileIdx <= Len(files)
  /\ pc = "done" => Len(results) = Len(files)

\* C10: a failure is counted once and the driver is then at the head of the
\* loop with the next file, whatever the --check flag.
C10_FailureIsPerFile ==
  /\ []C10_Counted
  /\ [][fail' # fail =>
          /\ fail' = fail + 1
          /\ ok' = ok /\ skipped' = skipped
          /\ fileIdx' = fileIdx + 1
          /\ pc' = "loop"]_vars

\* Without --check, the first file failed and the second was then imported.
C10_Witness ==
  /\ ~CHECK
  /\ pc = "done"
  /\ results = <<"fail", "ok">>

(***************************************************************************)
(* withRetry(fn) with its default options, on its own                      *)
(***************************************************************************)
baseDelay == 1000

\* The rejections fn() can end with.
Errors ==
  { Rejected(500, "", FALSE), Rejected(503, "", FALSE), Rejected(404, "", FALSE),
    Rejected(409, "", FALSE), Rejected(0, "ECONNRESET", FALSE),
    Rejected(0, "ETIMEDOUT", FALSE), Rejected(0, "ENOTFOUND", FALSE),
    Rejected(0, "ECONNREFUSED", FALSE), Rejected(0, "EACCES", FALSE),
    Rejected(0, "", TRUE), Rejected(0, "", FALSE) }

\* isRetryable that holds of every error.
isRetryableAlways(err) == TRUE

\* isRetryable of withRetry, lines 174-180
isRetryable(err) ==
  \/ err.statusCode >= 500
  \/ err.code = "ECONNRESET"
  \/ err.code = "ETIMEDOUT"
  \/ err.code = "ENOTFOUND"
  \/ err.code = "ECONNREFUSED"
  \/ err.hangUp

\* The outcome of fn() as retryStep sees it.
outcomeKind(o) == IF o.ok THEN "ok" ELSE IF isRetryable(o) THEN "retryable" ELSE "fatal"

InitRetry ==
  /\ retryPc = "call" /\ retryAttempt = 1 /\ retryLog = <<>> /\ retryWaits = <<>>
  /\ retryEnd = NoOutcome
  /\ SpliceIdle
  /\ ValidateIdle
  /\ DriverIdle

\* lines 170-187: fn() is invoked and settles; withRetry returns its value,
\* throws its error, or starts the timer of the delay.
RetryInvoke ==
  /\ retryPc = "call"
  /\ \E o \in Errors \cup {Resolved(retryAttempt)} :
        LET step == retryStep(outcomeKind(o), retryAttempt)
        IN /\ retryLog' = Append(retryLog, o)
           /\ IF step = "return"
              THEN retryPc' = "returned" /\ retryEnd' = o /\ UNCHANGED retryWaits
              ELSE IF step = "throw"
              THEN retryPc' = "threw" /\ retryEnd' = o /\ UNCHANGED retryWaits
              ELSE /\ retryPc' = "wait"
                   /\ retryWaits' = Append(retryWaits, baseDelay * 2 ^ (retryAttempt - 1))
                   /\ UNCHANGED retryEnd
  /\ UNCHANGED retryAttempt
  /\ UNCHANGED otherThanRetry

\* line 188 and the loop head: the timer fires, attempt++
RetryWake ==
  /\ retryPc = "wait"
  /\ retryPc' = "call"
  /\ retryAttempt' = retryAttempt + 1
  /\ UNCHANGED <<retryLog, retryWaits, retryEnd>>
  /\ UNCHANGED otherThanRetry

NextRetry == RetryInvoke \/ RetryWake

SpecRetry == InitRetry /\ [][NextRetry]_vars

\* fn() settles and the timer fires: both are steps that, once possible, happen.
SpecRetryLive == SpecRetry /\ WF_vars(RetryInvoke) /\ WF_vars(RetryWake)

\* The transient conditions: status 500 or more, connection reset, timeout,
\* refused, host not found, socket hang up.
Transient(o) ==
  /\ ~o.ok
  /\ \/ o.statusCode >= 500
     \/ o.code \in {"ECONNRESET", "ETIMEDOUT", "ECONNREFUSED", "ENOTFOUND"}
     \/ o.hangUp

C11_History ==
  /\ Len(retryLog) <= 3
  /\ \A k \in 2..Len(retryLog) : Transient(retryLog[k - 1])
  /\ \A k \in 1..Len(retryLog) :
        ~retryLog[k].ok /\ ~Transient(retryLog[k]) =>
          k = Len(retryLog) /\ retryPc = "threw"
  /\ Len(retryWaits) = (IF retryPc \in {"call", "wait"} THEN Len(retryLog)
                        ELSE Len(retryLog) - 1)
  /\ \A k \in 1..Len(retryWaits) : retryWaits[k] = 1000 * 2 ^ (k - 1)
  /\ retryPc = "returned" =>
        /\ retryEnd = retryLog[Len(retryLog)] /\ retryEnd.ok
        /\ \A k \in 1..(Len(retryLog) - 1) : ~retryLog[k].ok
  /\ retryPc = "threw" =>
        /\ retryEnd = retryLog[Len(retryLog)] /\ ~retryEnd.ok
        /\ ~Transient(retryEnd) \/ Len(retryLog) = 3
  /\ (retryPc \in {"call", "wait"}) <=> retryEnd = NoOutcome

\* C11: fn is invoked again only after a transient failure, a failure of
\* another kind is thrown after that one attempt, fn is invoked at most 3
\* times, the k-th wait is baseDelay * 2^(k-1), and withRetry ends, returning
\* the first successful result or throwing the last error.
C11_RetryOnlyTransient ==
  /\ []C11_History
  /\ <>(retryPc \in {"returned", "threw"})

\* Two transient failures were waited out and the third attempt succeeded.
C11_Witness ==
  /\ retryPc = "returned"
  /\ Len(retryLog) = 3
  /\ retryWaits = <<1000, 2000>>
  /\ retryEnd.value = 3

\* C12: in --check mode, when the process has ended every discovered file has
\* an outcome, and the exit status is non-zero exactly when a file failed.
C12_CheckExitStatus ==
  /\ pc # "done" => exitCode = -1
  /\ (CHECK /\ pc = "done") =>
        /\ Len(results) = Len(files)
        /\ exitCode # 0 <=> \E k \in 1..Len(results) : results[k] = "fail"
        /\ exitCode \in {0, 2}

\* A --check run ended with status 2 after a failed file and a later good one.
C12_Witness ==
  /\ CHECK
  /\ pc = "done"
  /\ exitCode = 2
  /\ results = <<"fail", "ok">>

\* C13 as stated: an upload is in flight only while the file that issued it
\* is suspended on its images; the driver is never between files, or in
\* another stage of a file, with an upload still in flight.
C13_NoUploadOutlivesItsFile ==
  pc \notin {"awaitCover", "awaitInline"} => DOMAIN uploadPromises = {}

\* The assets as the backend names them, whatever the run did.
AssetOfPath == [p \in ExistingPaths |-> RemoteAssetId(p)]

\* The blocks without what an upload returns.
withoutAssets(blocks) ==
  [k \in 1..Len(blocks) |->
     IF blocks[k]._type = "image" THEN [blocks[k] EXCEPT !.asset._ref = <<>>]
     ELSE blocks[k]]

\* C14: in the body of the document assembled for a file, the k-th image block
\* holds the asset of the k-th image reference of the source, and the blocks,
\* their order and their texts are those the source alone determines, in every
\* order in which the uploads of the file completed.
C14_BodyIndependentOfCompletionOrder ==
  (WRITE /\ pc = "upsert") =>
     LET f == files[fileIdx]
         refs == RefsOf(f.content)
         imgs == ImageBlocksOf(cur.doc.body)
     IN /\ Len(imgs) = Len(refs)
        /\ \A k \in 1..Len(imgs) :
              imgs[k].asset._ref = RemoteAssetId(resolvePath(f.path, refs[k].src))
        /\ stripKeys(withoutAssets(cur.doc.body))
             = stripKeys(withoutAssets(bodyOf(f, 0, AssetOfPath)))

\* A file's second inline image finished uploading before its first, and the
\* document was assembled.
C14_Witness ==
  /\ WRITE /\ pc = "upsert"
  /\ LET absPaths == absPathsOf(files[fileIdx])
     IN /\ Len(absPaths) = 2
        /\ absPaths[1] # absPaths[2]
        /\ \E j, k \in 1..Len(calls.settled) :
              j < k /\ calls.settled[j] = absPaths[2] /\ calls.settled[k] = absPaths[1]
  /\ HasImageBlock(cur.doc)

\* The keys of the blocks, then the keys of their children, with repetitions.
RECURSIVE childKeysOf(_)
childKeysOf(blocks) ==
  IF blocks = <<>> THEN <<>>
  ELSE (IF HasChildren(Head(blocks))
        THEN [j \in 1..Len(Head(blocks).children) |-> Head(blocks).children[j]._key]
        ELSE <<>>) \o childKeysOf(Tail(blocks))

keysOf(blocks) == [k \in 1..Len(blocks) |-> blocks[k]._key] \o childKeysOf(blocks)

\* C15: in the final body every block and every span has a key, and no key
\* is that of two of them.
C15_KeysPresentAndUnique ==
  stage = "spliced" =>
    LET keys == keysOf(body)
    IN /\ \A k \in 1..Len(keys) : keys[k] # NoKey
       /\ \A j, k \in 1..Len(keys) : j # k => keys[j] # keys[k]

\* The body holds a block the converter made, a block made by a split and an
\* image block.
C15_Witness ==
  /\ stage = "spliced"
  /\ \E k \in 1..Len(body) : body[k]._type = "block" /\ ~IsSplitProduct(body[k])
  /\ \E k \in 1..Len(body) : IsSplitProduct(body[k])
  /\ \E k \in 1..Len(body) : body[k]._type = "image"
  /\ Len(keysOf(body)) >= 5

\* ensureAuthor has returned for the current file.
AuthorResolved == pc \in {"cover", "awaitCover", "body", "awaitInline", "assemble", "upsert"}

\* C16, in a state: the backend holds at most one author record of a name; a
\* reference returned for a name is the id of the record of that name, which
\* is the deterministic id unless the record was there before; a reference
\* returned for an authorId is that id and its record exists.
C16_OneAuthor ==
  /\ \A a, b \in DOMAIN dataset :
        (dataset[a]._type = "author" /\ dataset[b]._type = "author"
           /\ dataset[a].name = dataset[b].name) => a = b
  /\ (WRITE /\ AuthorResolved) =>
        LET fm == files[fileIdx].fm
        IN IF ~Falsy(fm.authorId)
           THEN cur.authorRef = fm.authorId /\ fm.authorId \in DOMAIN dataset
           ELSE /\ cur.authorRef \in DOMAIN dataset
                /\ dataset[cur.authorRef]._type = "author"
                /\ dataset[cur.authorRef].name = fm.author
                /\ cur.authorRef \in {AuthorX, makeDocumentId("author", slugify(fm.author), DRAFT)}

\* C16: author records are never changed or removed, so every call for a name
\* returns the same id, in this run and the next; at most one record of a name
\* exists; a call with an authorId that has no record fails and creates nothing.
C16_AuthorResolution ==
  /\ []C16_OneAuthor
  /\ [][\A id \in DOMAIN dataset :
           dataset[id]._type = "author" =>
             id \in DOMAIN dataset' /\ dataset'[id] = dataset[id]]_vars
  /\ [][(pc = "author" /\ ~Falsy(files[fileIdx].fm.authorId)
           /\ files[fileIdx].fm.authorId \notin DOMAIN dataset)
          => /\ dataset' = dataset
             /\ calls'.createIfNotExists = calls.createIfNotExists
             /\ pc' \in {"author", "loop"}
             /\ pc' = "loop" => fail' = fail + 1]_vars

\* In the second run the second of two files has resolved, with no creation,
\* the author that the first run created under the deterministic id.
C16_Witness ==
  /\ run = 2
  /\ AuthorResolved
  /\ fileIdx = 2
  /\ Falsy(files[1].fm.authorId) /\ Falsy(files[2].fm.authorId)
  /\ results = <<"ok">>
  /\ cur.authorRef = makeDocumentId("author", slugify(Ann), DRAFT)
  /\ AuthorX \notin DOMAIN dataset
  /\ calls.createIfNotExists = 0

(***************************************************************************)
(* The splice of one text block that holds one token, for the reference    *)
(* ![cat](a "A cat")                                                       *)
(***************************************************************************)
\* The texts a span of the block can have: without the token, or with the
\* token at its start, at its end or inside.
PlainTexts == { <<"a">>, <<" ">> }
TokenTexts ==
  { Token(0), <<"a">> \o Token(0), Token(0) \o <<"b">>, <<"a">> \o Token(0) \o <<"b">>,
    <<" ">> \o Token(0) \o <<" ">>, <<" ">> \o Token(0) \o <<" ", "b">> }

\* 'See ', bold 'this', ' <token> now.'
ExampleSpans ==
  << [text |-> <<"S", "e", "e", " ">>, marked |-> FALSE],
     [text |-> <<"t", "h", "i", "s">>, marked |-> TRUE],
     [text |-> <<" ">> \o Token(0) \o <<" ", "n", "o", "w", ".">>, marked |-> FALSE] >>

\* The span lists of a block: one span holds the token, the others do not.
SpanLists ==
  {ExampleSpans} \cup
  {sp \in UNION {[1..n -> [text : PlainTexts \cup TokenTexts, marked : BOOLEAN]] :
                  n \in 1..MaxSpans} :
     Cardinality({j \in 1..Len(sp) : sp[j].text \in TokenTexts}) = 1}

InitSplitBlock ==
  /\ stage = "converted"
  /\ md = <<CatRef>>
  /\ rewritten = extractInlineImages(md).rewrittenMarkdown
  /\ images = extractInlineImages(md).images
  /\ \E sp \in SpanLists :
        pt = <<converterBlock(sp, 1, [heading |-> FALSE, keyed |-> TRUE, code |-> FALSE])>>
  /\ body = <<>>
  /\ keysUsed = 0
  /\ ValidateIdle
  /\ DriverIdle
  /\ RetryIdle

NextSplitBlock == Splice

SpecSplitBlock == InitSplitBlock /\ [][NextSplitBlock]_vars

\* What is compared of a span, and of a block: texts and marks, not keys.
spanView(c) == [text |-> c.text, marks |-> c.marks]
blockView(b) ==
  IF b._type = "image" THEN [type |-> "image", alt |-> b.alt, caption |-> b.caption,
                             spans |-> <<>>]
  ELSE [type |-> b._type, alt |-> <<>>, caption |-> <<>>,
        spans |-> [j \in 1..Len(b.children) |-> spanView(b.children[j])]]

\* The text block of the spans of one side, none when the side has no text
\* other than whitespace.
sideBlock(spans) ==
  IF \E j \in 1..Len(spans) : \E k \in 1..Len(spans[j].text) : spans[j].text[k] # " "
  THEN << [type |-> "block", alt |-> <<>>, caption |-> <<>>, spans |-> spans] >>
  ELSE <<>>

cutSpan(c, text) == IF text = <<>> THEN <<>> ELSE << [text |-> text, marks |-> c.marks] >>

\* The three parts that the claim describes, for a block with the token in
\* its span j.
expectedSplit(block) ==
  LET cs == block.children
      j == CHOOSE j \in 1..Len(cs) : includes(cs[j].text, Token(0))
      at == indexOf(cs[j].text, Token(0))
      pre == SubSeq(cs[j].text, 1, at - 1)
      post == SubSeq(cs[j].text, at + 2, Len(cs[j].text))
      earlier == [k \in 1..(j - 1) |-> spanView(cs[k])]
      later == [k \in 1..(Len(cs) - j) |-> spanView(cs[j + k])]
  IN sideBlock(earlier \o cutSpan(cs[j], pre))
       \o << [type |-> "image", alt |-> <<"c", "a", "t">>,
              caption |-> <<"A", " ", "c", "a", "t">>, spans |-> <<>>] >>
       \o sideBlock(cutSpan(cs[j], post) \o later)

\* C17: the splice of a text block with one token yields the text block of
\* what precedes the token, the image block of the reference, and the text
\* block of what follows it, whitespace kept, and no text block for a side
\* that is empty or only whitespace; for 'See ', bold 'this', ' <token> now.'
\* it yields ['See ', bold 'this', ' '], the image, [' now.'].
C17_SplitAroundToken ==
  stage = "spliced" =>
    /\ [k \in 1..Len(body) |-> blockView(body[k])] = expectedSplit(pt[1])
    /\ pt[1].children = converterBlock(ExampleSpans, 1,
                          [heading |-> FALSE, keyed |-> TRUE, code |-> FALSE]).children
         => [k \in 1..Len(body) |-> blockView(body[k])] =
              << [type |-> "block", alt |-> <<>>, caption |-> <<>>,
                  spans |-> << [text |-> <<"S", "e", "e", " ">>, marks |-> <<>>],
                               [text |-> <<"t", "h", "i", "s">>, marks |-> MarkedMarks],
                               [text |-> <<" ">>, marks |-> <<>>] >>],
                 [type |-> "image", alt |-> <<"c", "a", "t">>,
                  caption |-> <<"A", " ", "c", "a", "t">>, spans |-> <<>>],
                 [type |-> "block", alt |-> <<>>, caption |-> <<>>,
                  spans |-> << [text |-> <<" ", "n", "o", "w", ".">>, marks |-> <<>>] >>] >>

\* The example block has been spliced into three blocks.
C17_Witness ==
  /\ stage = "spliced"
  /\ pt[1].children = converterBlock(ExampleSpans, 1,
                        [heading |-> FALSE, keyed |-> TRUE, code |-> FALSE]).children
  /\ Len(body) = 3

\* C18, in a state: a path has a cache entry or an in-flight entry, not both,
\* and a path whose upload was given up and that has neither is uploaded
\* anew by the next request for it.
C18_CacheState ==
  /\ DOMAIN assetCache \cap DOMAIN uploadPromises = {}
  /\ \A absPath \in calls.gaveUp :
        (WRITE /\ absPath \notin DOMAIN assetCache /\ absPath \notin DOMAIN uploadPromises) =>
          LET r == uploadImageAsset(uploadState, absPath, WRITE)
          IN /\ r.status = "pending"
             /\ absPath \in DOMAIN r.uploadPromises
             /\ absPath \notin calls.cacheHits

\* C18: a cache entry, once written, keeps its id; it is written only when the
\* upload of its path succeeds, or at the dry-run resolution of an image file;
\* an upload that is given up leaves no cache entry and no in-flight entry.
C18_CacheOnlyOnSuccess ==
  /\ []C18_CacheState
  /\ [][\A absPath \in DOMAIN assetCache :
           absPath \in DOMAIN assetCache' /\ assetCache'[absPath] = assetCache[absPath]]_vars
  /\ [][\A absPath \in DOMAIN assetCache' \ DOMAIN assetCache :
           IF WRITE
           THEN /\ absPath \in DOMAIN uploadPromises
                /\ absPath \notin DOMAIN uploadPromises'
                /\ absPath \in {calls'.settled[k] : k \in 1..Len(calls'.settled)}
                /\ calls'.gaveUp = calls.gaveUp
                /\ assetCache'[absPath] = RemoteAssetId(absPath)
           ELSE /\ existsSync(absPath) /\ ~InvalidImageType(absPath)
                /\ assetCache'[absPath] = <<"dry.asset.">> \o slugify(basename(absPath))]_vars
  /\ [][\A absPath \in calls'.gaveUp \ calls.gaveUp :
           /\ absPath \in DOMAIN uploadPromises
           /\ absPath \notin DOMAIN uploadPromises'
           /\ absPath \notin DOMAIN assetCache']_vars

\* The upload of a cover was given up and failed the first file; the second
\* file asked for the same path, which was uploaded anew and is now cached.
C18_Witness ==
  /\ WRITE
  /\ results = <<"fail">>
  /\ fileIdx = 2
  /\ \E absPath \in calls.gaveUp :
        /\ absPath \in DOMAIN assetCache
        /\ calls.upload[absPath] = 2
        /\ absPath = resolvePath(files[2].path, files[2].fm.mainImage)

\* The --only slug is set, and the k-th file passes validation with another slug.
FilteredOut(k) ==
  /\ ~Falsy(ONLY_SLUG)
  /\ validSlug(files[k]) # <<>>
  /\ validSlug(files[k]) # ONLY_SLUG

\* C19: the step of importFile on a file that the --only slug filters out
\* counts it as skipped and as nothing else, invokes no backend operation,
\* starts no upload, changes no document, and records the file under its slug
\* if the slug is not recorded yet; a file is counted as skipped only so.
C19_SkippedFileHasNoEffect ==
  /\ [](\A k \in 1..Len(results) : results[k] = "skipped" <=> FilteredOut(k))
  /\ [][(pc = "loop" /\ fileIdx <= Len(files) /\ FilteredOut(fileIdx)
           /\ (pc' # pc \/ fileIdx' # fileIdx))
          => /\ skipped' = skipped + 1 /\ ok' = ok /\ fail' = fail
             /\ fileIdx' = fileIdx + 1 /\ pc' = "loop"
             /\ calls' = calls
             /\ assetCache' = assetCache /\ uploadPromises' = uploadPromises
             /\ dataset' = dataset
             /\ slugToFile' =
                  (IF validSlug(files[fileIdx]) \in DOMAIN slugToFile THEN slugToFile
                   ELSE Put(slugToFile, validSlug(files[fileIdx]), files[fileIdx].path))]_vars

\* In write mode the first file has just been skipped: no operation was
\* invoked and its slug is recorded.
C19_Witness ==
  /\ WRITE
  /\ results = <<"skipped">>
  /\ skipped = 1
  /\ calls = NoCalls
  /\ dataset = <<>>
  /\ DOMAIN slugToFile = {validSlug(files[1])}
  /\ Len(files) = 2

\* The number of files that ended with the given outcome.
Outcomes(kind) == Cardinality({k \in 1..Len(results) : results[k] = kind})

\* C20: every file handled so far is counted once, as a success, as skipped or
\* as a failure, and when the process has ended the three counts add up to
\* the number of discovered files.
C20_CountsAddUp ==
  /\ ok = Outcomes("ok") /\ skipped = Outcomes("skipped") /\ fail = Outcomes("fail")
  /\ ok + skipped + fail = Len(results)
  /\ pc = "done" => ok + skipped + fail = Len(files)

\* The summary was printed after one file was skipped and one failed.
C20_Witness ==
  /\ pc = "done"
  /\ Len(files) = 2
  /\ skipped = 1
  /\ fail = 1
  /\ ok = 0

====
